---------------------------- MODULE Spec2Model ----------------------------
(***************************************************************************)
(* Model of the HTTP storage adapter of PlakarKorp/integration-http       *)
(* (storage/client.go): NewStore, sendRequest and the fourteen networked  *)
(* operations of Store, run by concurrent goroutines against a remote     *)
(* peer that speaks the RPC-envelope wire protocol.                        *)
(*                                                                         *)
(* Text is modelled as a sequence of tokens: a token is "/" , ":" , a     *)
(* control character, or a whole name ("repo", "..", "store.example.com").*)
(* Byte payloads are sequences of numbers 0..255; their JSON form is the  *)
(* base64 text encoding/json produces for []byte, a sequence of sextets   *)
(* 0..63 with Pad for '='.                                                 *)
(***************************************************************************)
EXTENDS Integers, Sequences, FiniteSets, TLC

\* ------------------------------------------------------------------ bounds

\* Invocations of networked operations by one goroutine, one after the other.
MaxCalls == 2

\* Responses in one run that the peer makes up instead of serving the request.
MaxFaults == 1

\* ------------------------------------------------------------ path.Join

Slash == "/"

\* The elements of a path: its tokens other than the separators.
Segments(p) == SelectSeq(p, LAMBDA t : t # Slash)

Rooted(p) == Len(p) > 0 /\ p[1] = Slash

\* path.Clean's elimination of "." and "..", left to right over the elements.
RECURSIVE CleanStack(_, _, _)
CleanStack(segs, stack, rooted) ==
    IF segs = <<>> THEN stack
    ELSE LET s == Head(segs)
             n == Len(stack)
         IN  CASE s = "." -> CleanStack(Tail(segs), stack, rooted)
               [] s = ".." ->
                    IF n > 0 /\ stack[n] # ".."
                    THEN CleanStack(Tail(segs), SubSeq(stack, 1, n - 1), rooted)
                    ELSE IF rooted
                         THEN CleanStack(Tail(segs), stack, rooted)
                         ELSE CleanStack(Tail(segs), Append(stack, ".."), rooted)
               [] OTHER -> CleanStack(Tail(segs), Append(stack, s), rooted)

\* The elements written out again with one separator between two of them.
RECURSIVE Interleave(_)
Interleave(segs) ==
    IF Len(segs) <= 1 THEN segs
    ELSE <<Head(segs), Slash>> \o Interleave(Tail(segs))

\* path.Clean: the shortest equivalent path; "." for the empty one; no
\* trailing separator unless the result is the root.
Clean(p) ==
    LET stack == CleanStack(Segments(p), <<>>, Rooted(p))
    IN  IF Rooted(p) THEN <<Slash>> \o Interleave(stack)
        ELSE IF stack = <<>> THEN <<".">>
        ELSE Interleave(stack)

\* A Join that appends the subpath to the path as it stands (u.Path +
\* requestType), without cleaning the result.
JoinConcat(a, b) == a \o b

\* path.Join(a, b): empty elements are ignored, the rest joined by a
\* separator and cleaned; the empty path when both are empty.
Join(a, b) ==
    IF a = <<>> /\ b = <<>> THEN <<>>
    ELSE IF a = <<>> THEN Clean(b)
    ELSE IF b = <<>> THEN Clean(a)
    ELSE Clean(a \o <<Slash>> \o b)

\* ------------------------------------------------------------- net/url

Colon == ":"
Ctl == "\n"
BadEscape == "%zz"

NoURL == [Scheme |-> "", Opaque |-> <<>>, Host |-> <<>>, Path |-> <<>>]

\* url.Parse lower-cases the scheme.
Lower(t) == IF t = "HTTP" THEN "http" ELSE t

StartsWith(s, pre) == Len(s) >= Len(pre) /\ SubSeq(s, 1, Len(pre)) = pre

\* The index of the first separator of s, or Len(s) + 1.
RECURSIVE FirstSlash(_, _)
FirstSlash(s, i) ==
    IF i > Len(s) \/ s[i] = Slash THEN i ELSE FirstSlash(s, i + 1)

Contains(s, t) == \E i \in 1..Len(s) : s[i] = t

ParseFailed == [ok |-> FALSE, url |-> NoURL]

\* The path is set last: an invalid escape in it is an error.
ParsePath(scheme, host, path) ==
    IF Contains(path, BadEscape) THEN ParseFailed
    ELSE [ok |-> TRUE,
          url |-> [Scheme |-> scheme, Opaque |-> <<>>, Host |-> host,
                   Path |-> path]]

\* After "//": the authority runs to the next separator, the path follows.
ParseAuthority(scheme, s, cut) ==
    ParsePath(scheme, SubSeq(s, 1, cut - 1), SubSeq(s, cut, Len(s)))

\* What follows the scheme: an opaque part when there is a scheme and no
\* leading separator; a relative path, whose first segment may hold no
\* colon; an authority after "//"; a path.
ParseRest(scheme, rest) ==
    IF scheme # "" /\ rest # <<>> /\ ~Rooted(rest)
    THEN [ok |-> TRUE,
          url |-> [Scheme |-> scheme, Opaque |-> rest, Host |-> <<>>,
                   Path |-> <<>>]]
    ELSE IF scheme = "" /\ ~Rooted(rest)
            /\ Contains(SubSeq(rest, 1, FirstSlash(rest, 1) - 1), Colon)
         THEN ParseFailed
    ELSE IF StartsWith(rest, <<Slash, Slash>>)
            /\ (scheme # "" \/ ~StartsWith(rest, <<Slash, Slash, Slash>>))
         THEN ParseAuthority(scheme, SubSeq(rest, 3, Len(rest)),
                             FirstSlash(SubSeq(rest, 3, Len(rest)), 1))
    ELSE ParsePath(scheme, <<>>, rest)

\* url.Parse(rawURL): [ok, url]. A control character, a missing scheme
\* before the colon, a colon in the first segment of a relative path and
\* an invalid escape are errors. A URL with no scheme, and the empty
\* string, parse.
Parse(raw) ==
    IF Contains(raw, Ctl) THEN ParseFailed
    ELSE IF Len(raw) >= 1 /\ raw[1] = Colon THEN ParseFailed
    ELSE IF Len(raw) >= 2 /\ raw[1] # Slash /\ raw[2] = Colon
         THEN ParseRest(Lower(raw[1]), SubSeq(raw, 3, Len(raw)))
    ELSE ParseRest("", raw)

\* (*url.URL).String(): scheme, colon, then the opaque part, or "//" and the
\* host when there is a scheme or a host, then the path (with a separator
\* added before a relative path that follows a host).
String(u) ==
    LET head == IF u.Scheme # "" THEN <<u.Scheme, Colon>> ELSE <<>>
        auth == IF u.Scheme # "" \/ u.Host # <<>>
                THEN (IF u.Host # <<>> \/ u.Path # <<>>
                      THEN <<Slash, Slash>> ELSE <<>>) \o u.Host
                ELSE <<>>
        sep == IF u.Path # <<>> /\ u.Path[1] # Slash /\ u.Host # <<>>
               THEN <<Slash>> ELSE <<>>
    IN  IF u.Opaque # <<>> THEN head \o u.Opaque
        ELSE head \o auth \o sep \o u.Path

\* --------------------------------------------------- encoding/json, []byte

Pad == 64

\* base64.StdEncoding of a byte sequence, three bytes to four sextets.
RECURSIVE Base64Encode(_)
Base64Encode(b) ==
    IF b = <<>> THEN <<>>
    ELSE IF Len(b) = 1
         THEN <<b[1] \div 4, (b[1] % 4) * 16, Pad, Pad>>
    ELSE IF Len(b) = 2
         THEN <<b[1] \div 4, (b[1] % 4) * 16 + b[2] \div 16, (b[2] % 16) * 4, Pad>>
    ELSE <<b[1] \div 4, (b[1] % 4) * 16 + b[2] \div 16,
           (b[2] % 16) * 4 + b[3] \div 64, b[3] % 64>>
         \o Base64Encode(SubSeq(b, 4, Len(b)))

\* base64.StdEncoding.Decode: [ok, bytes]; the text must be sextets in
\* groups of four with padding only at the end of the last group.
RECURSIVE Base64Decode(_)
Base64Decode(s) ==
    IF s = <<>> THEN [ok |-> TRUE, bytes |-> <<>>]
    ELSE IF Len(s) < 4 \/ s[1] >= Pad \/ s[2] >= Pad \/ s[3] > Pad \/ s[4] > Pad
         THEN [ok |-> FALSE, bytes |-> <<>>]
    ELSE LET b1 == s[1] * 4 + s[2] \div 16
             b2 == (s[2] % 16) * 16 + s[3] \div 4
             b3 == (s[3] % 4) * 64 + s[4]
             rest == Base64Decode(SubSeq(s, 5, Len(s)))
         IN  IF s[3] = Pad
             THEN IF s[4] = Pad /\ Len(s) = 4
                  THEN [ok |-> TRUE, bytes |-> <<b1>>]
                  ELSE [ok |-> FALSE, bytes |-> <<>>]
             ELSE IF s[4] = Pad
             THEN IF Len(s) = 4
                  THEN [ok |-> TRUE, bytes |-> <<b1, b2>>]
                  ELSE [ok |-> FALSE, bytes |-> <<>>]
             ELSE IF rest.ok
                  THEN [ok |-> TRUE, bytes |-> <<b1, b2, b3>> \o rest.bytes]
                  ELSE [ok |-> FALSE, bytes |-> <<>>]


\* ------------------------------------------------------------ the inputs

\* Goroutines of the host process that call into one Store.
Procs == {"g1", "g2"}

MACs == {"m1", "m2"}

\* Byte payloads: empty, one that ends a base64 group with one pad, one that
\* fills a group and ends the next with two.
Payloads == {<<>>, <<255, 1>>, <<77, 97, 110, 5>>}

\* The io.Reader a Put is given: its content, or a reader that fails.
Readers == {[bytes |-> b, fails |-> FALSE] : b \in Payloads}
           \cup {[bytes |-> <<>>, fails |-> TRUE]}

Offsets == {0, 1}
Lengths == {2}

\* storeConfig["location"]: the example of the documentation, a path with
\* "..", no path, no location at all, another scheme, a relative reference,
\* an opaque URL, and three strings url.Parse rejects.
Locations ==
    { <<"https", Colon, Slash, Slash, "store.example.com", Slash, "repo">>,
      <<"HTTP", Colon, Slash, Slash, "h", Slash, "a", Slash, "..", Slash, "b", Slash>>,
      <<"http", Colon, Slash, Slash, "h">>,
      <<>>,
      <<"ftp", Colon, Slash, Slash, "h", Slash, "x">>,
      <<"h", Slash, "repo">>,
      <<"http", Colon, "h">>,
      <<Colon, Slash, Slash, "h">>,
      <<"http", Colon, Slash, Slash, "h", Slash, Ctl>>,
      <<"http", Colon, Slash, Slash, "h", Slash, BadEscape>> }

Classes == {"state", "packfile", "lock"}

\* ------------------------------------------------------------ the values

NilVal == [k |-> "nil"]
BytesVal(b) == [k |-> "bytes", b |-> b]
MacsVal(s) == [k |-> "macs", s |-> s]
IntVal(n) == [k |-> "int", n |-> n]

NoError == [k |-> "none", msg |-> ""]
ReadError == [k |-> "read", msg |-> "unexpected EOF"]
TransportError == [k |-> "transport", msg |-> "connection refused"]
DecodeError == [k |-> "decode", msg |-> "invalid character"]

\* fmt.Errorf("%s", msg): an error whose message is msg.
Errorf(msg) == [k |-> "remote", msg |-> msg]

NoCall == [op |-> "", mac |-> "", data |-> <<>>, offset |-> 0, length |-> 0]
NoRequest == [method |-> "", url |-> <<>>,
              body |-> [fields |-> {}, mac |-> "", data |-> <<>>,
                        offset |-> 0, length |-> 0]]
NoBody == [k |-> "none", err |-> "", configuration |-> <<>>, data |-> <<>>,
           macs |-> {}, locks |-> {}]
NoReply == [k |-> "none", status |-> 0, body |-> NoBody]
NoExpect == [k |-> "none", ok |-> FALSE, val |-> NilVal, after |-> "", gone |-> {}]

\* -------------------------------------------------------------- the state

VARIABLES
    ctor,        \* NewStore: "none" before the call, then "ok" or "error"
    config,      \* storeConfig["location"] as NewStore was given it
    location,    \* Store.location, the parsed URL the adapter holds
    pc,          \* per goroutine: "idle", or "blocked" in http.DefaultClient.Do
    call,        \* per goroutine: the operation it is in, with its arguments
    ctxDone,     \* per goroutine: its call's context was cancelled in flight
    wire,        \* per goroutine: the request its call handed to the transport
    sent,        \* per goroutine: calls of http.DefaultClient.Do by its invocation
    done,        \* the invocation that returned last, until the next one
                 \* starts: its goroutine, call, what Do gave it and what it
                 \* returned
    openBodies,  \* response bodies obtained and not closed
    srv,         \* the peer: per class and MAC, the data field as it was sent
    ideal,       \* the callers' view of the store: per class and MAC, the bytes put
    lastOp,      \* per class and MAC: "put" or "delete", the last one served
    calls,       \* per goroutine: the invocations it has yet to make
    faults       \* made-up responses the peer has yet to give

vars == <<ctor, config, location, pc, call, ctxDone, wire, sent, done,
          openBodies, srv, ideal, lastOp, calls, faults>>

Keys == Classes \X MACs

Absent == [has |-> FALSE, data |-> <<>>]

\* What the peer holds when the adapter is constructed: one object of each
\* class under the MAC m1, none under m2.
InitialBytes == <<1, 2>>
InitialStore ==
    [k \in Keys |-> IF k[2] = "m1" THEN [has |-> TRUE, data |-> InitialBytes]
                    ELSE Absent]

NoneDone == [p |-> "", call |-> NoCall, sent |-> 0,
             reply |-> NoReply, val |-> NilVal, err |-> NoError,
             expect |-> NoExpect]

Init ==
    /\ ctor = "none"
    /\ config = <<>>
    /\ location = NoURL
    /\ pc = [p \in Procs |-> "idle"]
    /\ call = [p \in Procs |-> NoCall]
    /\ ctxDone = [p \in Procs |-> FALSE]
    /\ wire = [p \in Procs |-> NoRequest]
    /\ sent = [p \in Procs |-> 0]
    /\ done = NoneDone
    /\ openBodies = 0
    /\ ideal = InitialStore
    /\ srv = [k \in Keys |-> [has |-> ideal[k].has,
                              data |-> Base64Encode(ideal[k].data)]]
    /\ lastOp = [k \in Keys |-> ""]
    /\ calls = [p \in Procs |-> IF p = "g1" THEN MaxCalls ELSE 0]
    /\ faults = MaxFaults

\* ------------------------------------------------------------- NewStore

\* NewStore: the location is parsed and kept; the only failure is a parse
\* error. No request is made.
NewStore(loc) ==
    /\ ctor = "none"
    /\ config' = loc
    /\ ctor' = IF Parse(loc).ok THEN "ok" ELSE "error"
    /\ location' = Parse(loc).url
    /\ UNCHANGED <<pc, call, ctxDone, wire, sent, done, openBodies, srv, ideal,
                   lastOp, calls, faults>>

\* ----------------------------------------------------------- sendRequest

\* The request envelopes of package network, with the fields each carries.
Envelope(fields, mac, data, offset, length) ==
    [fields |-> fields, mac |-> mac, data |-> data, offset |-> offset,
     length |-> length]

\* json.Marshal(payload): a []byte field becomes its base64 text.
Marshal(payload) == [payload EXCEPT !.data = Base64Encode(@)]

\* u := *s.location; u.Path = path.Join(u.Path, requestType); u.String()
TargetURL(loc, requestType) ==
    String([loc EXCEPT !.Path = Join(loc.Path, requestType)])

\* A sendRequest that works on the Store's own URL (u := s.location) and so
\* leaves the joined path in it.
LocationAfterSendAliased(loc, requestType) ==
    [loc EXCEPT !.Path = Join(loc.Path, requestType)]

\* s.location after sendRequest: u is a copy, the Store's URL is not written.
LocationAfterSend(loc, requestType) == loc

\* sendRequest up to http.DefaultClient.Do, where the goroutine blocks: one
\* request, built from the Store's location and this call's arguments only.
sendRequest(p, c, method, requestType, payload) ==
    /\ ctor = "ok"
    /\ pc[p] = "idle"
    /\ calls[p] > 0
    /\ calls' = [calls EXCEPT ![p] = @ - 1]
    /\ call' = [call EXCEPT ![p] = c]
    /\ wire' = [wire EXCEPT ![p] =
                  [method |-> method, url |-> TargetURL(location, requestType),
                   body |-> Marshal(payload)]]
    /\ location' = LocationAfterSend(location, requestType)
    /\ sent' = [sent EXCEPT ![p] = 1]
    /\ pc' = [pc EXCEPT ![p] = "blocked"]
    /\ done' = NoneDone
    /\ UNCHANGED <<ctor, config, ctxDone, openBodies, srv, ideal, lastOp, faults>>

\* io.ReadAll(rd) failed: a Put returns the error and sends nothing.
readFailed(p, c) ==
    /\ ctor = "ok"
    /\ pc[p] = "idle"
    /\ calls[p] > 0
    /\ calls' = [calls EXCEPT ![p] = @ - 1]
    /\ done' = [NoneDone EXCEPT !.p = p, !.call = c, !.val = IntVal(0),
                                !.err = ReadError]
    /\ UNCHANGED <<ctor, config, location, pc, call, ctxDone, wire, sent,
                   openBodies, srv, ideal, lastOp, faults>>

Call(op, mac, data, offset, length) ==
    [op |-> op, mac |-> mac, data |-> data, offset |-> offset, length |-> length]

\* -------------------------------------------- the operations, up to Do

Open(p) ==
    sendRequest(p, Call("Open", "", <<>>, 0, 0), "GET", <<Slash>>,
                Envelope({}, "", <<>>, 0, 0))

GetStates(p) ==
    sendRequest(p, Call("GetStates", "", <<>>, 0, 0), "GET", <<Slash, "states">>,
                Envelope({}, "", <<>>, 0, 0))

PutState(p, MAC, rd) ==
    IF rd.fails THEN readFailed(p, Call("PutState", MAC, <<>>, 0, 0))
    ELSE sendRequest(p, Call("PutState", MAC, rd.bytes, 0, 0), "PUT",
                     <<Slash, "state">>,
                     Envelope({"mac", "data"}, MAC, rd.bytes, 0, 0))

GetState(p, MAC) ==
    sendRequest(p, Call("GetState", MAC, <<>>, 0, 0), "GET", <<Slash, "state">>,
                Envelope({"mac"}, MAC, <<>>, 0, 0))

DeleteState(p, MAC) ==
    sendRequest(p, Call("DeleteState", MAC, <<>>, 0, 0), "DELETE",
                <<Slash, "state">>, Envelope({"mac"}, MAC, <<>>, 0, 0))

GetPackfiles(p) ==
    sendRequest(p, Call("GetPackfiles", "", <<>>, 0, 0), "GET",
                <<Slash, "packfiles">>, Envelope({}, "", <<>>, 0, 0))

PutPackfile(p, MAC, rd) ==
    IF rd.fails THEN readFailed(p, Call("PutPackfile", MAC, <<>>, 0, 0))
    ELSE sendRequest(p, Call("PutPackfile", MAC, rd.bytes, 0, 0), "PUT",
                     <<Slash, "packfile">>,
                     Envelope({"mac", "data"}, MAC, rd.bytes, 0, 0))

GetPackfile(p, MAC) ==
    sendRequest(p, Call("GetPackfile", MAC, <<>>, 0, 0), "GET",
                <<Slash, "packfile">>, Envelope({"mac"}, MAC, <<>>, 0, 0))

\* A GetPackfileBlob that fills Offset from length and Length from offset.
GetPackfileBlobSwapped(p, MAC, offset, length) ==
    sendRequest(p, Call("GetPackfileBlob", MAC, <<>>, offset, length), "GET",
                <<Slash, "packfile", Slash, "blob">>,
                Envelope({"mac", "offset", "length"}, MAC, <<>>, length, offset))

GetPackfileBlob(p, MAC, offset, length) ==
    sendRequest(p, Call("GetPackfileBlob", MAC, <<>>, offset, length), "GET",
                <<Slash, "packfile", Slash, "blob">>,
                Envelope({"mac", "offset", "length"}, MAC, <<>>, offset, length))

\* A DeletePackfile that was copied from DeleteState and kept its path.
DeletePackfileAsState(p, MAC) ==
    sendRequest(p, Call("DeletePackfile", MAC, <<>>, 0, 0), "DELETE",
                <<Slash, "state">>, Envelope({"mac"}, MAC, <<>>, 0, 0))

DeletePackfile(p, MAC) ==
    sendRequest(p, Call("DeletePackfile", MAC, <<>>, 0, 0), "DELETE",
                <<Slash, "packfile">>, Envelope({"mac"}, MAC, <<>>, 0, 0))

GetLocks(p) ==
    sendRequest(p, Call("GetLocks", "", <<>>, 0, 0), "GET", <<Slash, "locks">>,
                Envelope({}, "", <<>>, 0, 0))

\* A PutLock that was copied from PutState and kept its path.
PutLockAsState(p, lockID, rd) ==
    IF rd.fails THEN readFailed(p, Call("PutLock", lockID, <<>>, 0, 0))
    ELSE sendRequest(p, Call("PutLock", lockID, rd.bytes, 0, 0), "PUT",
                     <<Slash, "state">>,
                     Envelope({"mac", "data"}, lockID, rd.bytes, 0, 0))

PutLock(p, lockID, rd) ==
    IF rd.fails THEN readFailed(p, Call("PutLock", lockID, <<>>, 0, 0))
    ELSE sendRequest(p, Call("PutLock", lockID, rd.bytes, 0, 0), "PUT",
                     <<Slash, "lock">>,
                     Envelope({"mac", "data"}, lockID, rd.bytes, 0, 0))

GetLock(p, lockID) ==
    sendRequest(p, Call("GetLock", lockID, <<>>, 0, 0), "GET", <<Slash, "lock">>,
                Envelope({"mac"}, lockID, <<>>, 0, 0))

DeleteLock(p, lockID) ==
    sendRequest(p, Call("DeleteLock", lockID, <<>>, 0, 0), "DELETE",
                <<Slash, "lock">>, Envelope({"mac"}, lockID, <<>>, 0, 0))

\* ----------------------------------------------------- the remote peer

NotFound == "not found"

\* The configuration blob of the documentation's example, {"v":1}.
ConfigBytes == <<123, 34, 118, 34, 58, 49, 125>>

Json(err, configuration, data, macs, locks) ==
    [k |-> "json", err |-> err, configuration |-> configuration, data |-> data,
     macs |-> macs, locks |-> locks]

\* Do transmits a request only to an http or https URL that names a host.
Reaches(u) == u.ok /\ u.url.Scheme \in {"http", "https"} /\ u.url.Host # <<>>

Deliverable(req) == Reaches(Parse(req.url))

\* The wire protocol's table: the method and the last elements of the path
\* select the operation and the resource class.
RouteBy(m, segs, last) ==
    CASE m = "GET" /\ last = "states" -> [kind |-> "list", class |-> "state"]
      [] m = "GET" /\ last = "packfiles" -> [kind |-> "list", class |-> "packfile"]
      [] m = "GET" /\ last = "locks" -> [kind |-> "list", class |-> "lock"]
      [] m = "GET" /\ last = "blob" /\ Len(segs) > 1
           /\ segs[Len(segs) - 1] = "packfile" ->
            [kind |-> "blob", class |-> "packfile"]
      [] m = "PUT" /\ last \in Classes -> [kind |-> "put", class |-> last]
      [] m = "GET" /\ last \in Classes -> [kind |-> "get", class |-> last]
      [] m = "DELETE" /\ last \in Classes -> [kind |-> "delete", class |-> last]
      [] m = "GET" -> [kind |-> "open", class |-> ""]
      [] OTHER -> [kind |-> "none", class |-> ""]

RouteOf(m, segs) == RouteBy(m, segs, IF segs = <<>> THEN "" ELSE segs[Len(segs)])

Route(req) == RouteOf(req.method, Segments(Parse(req.url).url.Path))

Min(a, b) == IF a < b THEN a ELSE b

\* bytes[offset : offset+length], cut at the end of the object.
Range(bytes, offset, length) ==
    SubSeq(bytes, offset + 1, Min(offset + length, Len(bytes)))

\* A peer that stores what it is sent per class and MAC: [body, store], the
\* response envelope and what it holds afterwards.
Respond(r, b, store) ==
    LET k == <<r.class, b.mac>>
        ok == Json("", <<>>, <<>>, {}, {})
        no == Json(NotFound, <<>>, <<>>, {}, {})
        listed == {m \in MACs : store[<<r.class, m>>].has}
    IN  CASE r.kind = "none" ->
                [body |-> [NoBody EXCEPT !.k = "garbage"], store |-> store]
          [] r.kind = "open" ->
                [body |-> [ok EXCEPT !.configuration = Base64Encode(ConfigBytes)],
                 store |-> store]
          [] r.kind = "list" ->
                [body |-> IF r.class = "lock" THEN [ok EXCEPT !.locks = listed]
                          ELSE [ok EXCEPT !.macs = listed],
                 store |-> store]
          [] "mac" \notin b.fields \/ b.mac \notin MACs ->
                [body |-> Json("bad request", <<>>, <<>>, {}, {}), store |-> store]
          [] r.kind = "put" ->
                IF "data" \in b.fields
                THEN [body |-> ok,
                      store |-> [store EXCEPT ![k] = [has |-> TRUE, data |-> b.data]]]
                ELSE [body |-> Json("bad request", <<>>, <<>>, {}, {}),
                      store |-> store]
          [] ~store[k].has -> [body |-> no, store |-> store]
          [] r.kind = "get" ->
                [body |-> [ok EXCEPT !.data = store[k].data], store |-> store]
          [] r.kind = "delete" ->
                [body |-> ok, store |-> [store EXCEPT ![k] = Absent]]
          [] OTHER ->
                [body |-> [ok EXCEPT !.data =
                             Base64Encode(Range(Base64Decode(store[k].data).bytes,
                                                b.offset, b.length))],
                 store |-> store]

Handle(req, store) == Respond(Route(req), req.body, store)

\* Responses a peer may give that serve nothing: a body that is not JSON, an
\* envelope with an error and a payload under status 200, an empty object,
\* an envelope whose byte fields are not base64, and an envelope with a
\* payload of its own under status 500.
FaultReplies ==
    { [k |-> "http", status |-> 502, body |-> [NoBody EXCEPT !.k = "garbage"]],
      [k |-> "http", status |-> 200,
       body |-> Json("quota exceeded", Base64Encode(<<9>>), Base64Encode(<<9>>),
                     {"m1"}, {"m1"})],
      [k |-> "http", status |-> 204, body |-> Json("", <<>>, <<>>, {}, {})],
      [k |-> "http", status |-> 200, body |-> Json("", <<1>>, <<1>>, {"m2"}, {"m2"})],
      [k |-> "http", status |-> 500,
       body |-> Json("", Base64Encode(<<7, 8>>), Base64Encode(<<7, 8>>),
                     {"m2"}, {"m1"})] }

\* ------------------------------------------------- the callers' view

ClassOf(op) ==
    CASE op \in {"GetStates", "PutState", "GetState", "DeleteState"} -> "state"
      [] op \in {"GetPackfiles", "PutPackfile", "GetPackfile", "GetPackfileBlob",
                 "DeletePackfile"} -> "packfile"
      [] op \in {"GetLocks", "PutLock", "GetLock", "DeleteLock"} -> "lock"
      [] OTHER -> ""

Lists == {"GetStates", "GetPackfiles", "GetLocks"}
Puts == {"PutState", "PutPackfile", "PutLock"}
Gets == {"GetState", "GetPackfile", "GetLock"}
Deletes == {"DeleteState", "DeletePackfile", "DeleteLock"}

\* The call c applied to a store of bytes per class and MAC, as its caller
\* means it: what it should return, and the store and the last operation per
\* object afterwards.
Intended(c, store, last) ==
    LET cl == ClassOf(c.op)
        k == <<cl, c.mac>>
        same == [store |-> store, last |-> last, after |-> "", gone |-> {}]
    IN  CASE c.op = "Open" ->
                [ok |-> TRUE, val |-> BytesVal(ConfigBytes)] @@ same
          [] c.op \in Lists ->
                [ok |-> TRUE,
                 val |-> MacsVal({m \in MACs : store[<<cl, m>>].has}),
                 gone |-> {m \in MACs : last[<<cl, m>>] = "delete"}] @@ same
          [] c.op \in Puts ->
                [ok |-> TRUE, val |-> IntVal(Len(c.data)),
                 store |-> [store EXCEPT ![k] = [has |-> TRUE, data |-> c.data]],
                 last |-> [last EXCEPT ![k] = "put"]] @@ same
          [] ~store[k].has ->
                [ok |-> FALSE, val |-> NilVal, after |-> last[k]] @@ same
          [] c.op \in Gets ->
                [ok |-> TRUE, val |-> BytesVal(store[k].data), after |-> last[k]]
                @@ same
          [] c.op \in Deletes ->
                [ok |-> TRUE, val |-> NilVal,
                 store |-> [store EXCEPT ![k] = Absent],
                 last |-> [last EXCEPT ![k] = "delete"]] @@ same
          [] OTHER ->
                [ok |-> TRUE,
                 val |-> BytesVal(Range(store[k].data, c.offset, c.length)),
                 after |-> last[k]] @@ same

\* ------------------------------------- the operations, after Do returns

\* What an operation returns beside its error when it fails.
ZeroVal(op) ==
    CASE op \in Puts -> IntVal(0)
      [] op = "GetLocks" -> MacsVal({})
      [] OTHER -> NilVal

\* The base64 text of the []byte field of the operation's response envelope.
ByteField(op, body) ==
    CASE op = "Open" -> body.configuration
      [] op \in Gets \cup {"GetPackfileBlob"} -> body.data
      [] OTHER -> <<>>

\* json.NewDecoder(r.Body).Decode(&res): the body must be JSON and the
\* envelope's []byte field base64; fields the envelope lacks are ignored.
Decodes(op, body) == body.k = "json" /\ Base64Decode(ByteField(op, body)).ok

\* What the operation returns on success.
Payload(op, data, body) ==
    CASE op \in {"GetStates", "GetPackfiles"} -> MacsVal(body.macs)
      [] op = "GetLocks" -> MacsVal(body.locks)
      [] op \in Puts -> IntVal(Len(data))
      [] op \in Deletes -> NilVal
      [] OTHER -> BytesVal(Base64Decode(ByteField(op, body)).bytes)

\* A tail that takes any status but 200 for a failure.
ClassifyByStatus(op, data, r) ==
    IF r.k = "transport" THEN [val |-> ZeroVal(op), err |-> TransportError]
    ELSE IF r.status # 200 THEN [val |-> ZeroVal(op), err |-> Errorf("bad status")]
    ELSE IF ~Decodes(op, r.body) THEN [val |-> ZeroVal(op), err |-> DecodeError]
    ELSE IF r.body.err # "" THEN [val |-> ZeroVal(op), err |-> Errorf(r.body.err)]
    ELSE [val |-> Payload(op, data, r.body), err |-> NoError]

\* A tail in which a list that failed is reported as an empty list.
ClassifySwallow(op, data, r) ==
    IF op \in Lists /\ (r.k = "transport" \/ ~Decodes(op, r.body) \/ r.body.err # "")
    THEN [val |-> MacsVal({}), err |-> NoError]
    ELSE IF r.k = "transport" THEN [val |-> ZeroVal(op), err |-> TransportError]
    ELSE IF ~Decodes(op, r.body) THEN [val |-> ZeroVal(op), err |-> DecodeError]
    ELSE IF r.body.err # "" THEN [val |-> ZeroVal(op), err |-> Errorf(r.body.err)]
    ELSE [val |-> Payload(op, data, r.body), err |-> NoError]

\* The tail every operation shares: the transport's error, else the decode
\* error, else the envelope's error, else the payload. The status is not read.
Classify(op, data, r) ==
    IF r.k = "transport" THEN [val |-> ZeroVal(op), err |-> TransportError]
    ELSE IF ~Decodes(op, r.body) THEN [val |-> ZeroVal(op), err |-> DecodeError]
    ELSE IF r.body.err # "" THEN [val |-> ZeroVal(op), err |-> Errorf(r.body.err)]
    ELSE [val |-> Payload(op, data, r.body), err |-> NoError]

\* Response bodies an operation leaves open when it returns: no operation
\* calls r.Body.Close().
BodiesLeftOpen(r) == IF r.k = "http" THEN 1 ELSE 0

\* Do has returned r to goroutine p, which decodes, classifies and returns;
\* x is what the callers' view says the call should return.
Return(p, r, x) ==
    /\ done' = [p |-> p, call |-> call[p], sent |-> sent[p], reply |-> r,
                expect |-> x]
               @@ Classify(call[p].op, call[p].data, r)
    /\ openBodies' = openBodies + BodiesLeftOpen(r)
    /\ pc' = [pc EXCEPT ![p] = "idle"]
    /\ call' = [call EXCEPT ![p] = NoCall]
    /\ wire' = [wire EXCEPT ![p] = NoRequest]
    /\ sent' = [sent EXCEPT ![p] = 0]
    /\ ctxDone' = [ctxDone EXCEPT ![p] = FALSE]
    /\ UNCHANGED <<ctor, config, location, calls>>

\* The status a serving peer gives its envelope.
StatusOf(body) ==
    IF body.k = "json" /\ body.err = "" THEN 200
    ELSE IF body.k = "json" /\ body.err = NotFound THEN 404
    ELSE 400

\* The peer's handling h of p's request takes effect, with what the call
\* means, i, to its caller.
Served(p, h, i) ==
    /\ srv' = h.store
    /\ ideal' = i.store
    /\ lastOp' = i.last
    /\ Return(p, [k |-> "http", status |-> StatusOf(h.body), body |-> h.body],
              [k |-> "served", ok |-> i.ok, val |-> i.val, after |-> i.after,
               gone |-> i.gone])

\* The peer serves p's request and p's operation returns.
Serve(p) ==
    /\ pc[p] = "blocked"
    /\ Deliverable(wire[p])
    /\ Served(p, Handle(wire[p], srv), Intended(call[p], ideal, lastOp))
    /\ UNCHANGED faults

\* The peer answers p's request with a response of its own making.
Fault(p) ==
    /\ pc[p] = "blocked"
    /\ Deliverable(wire[p])
    /\ faults > 0
    /\ faults' = faults - 1
    /\ \E r \in FaultReplies : Return(p, r, [NoExpect EXCEPT !.k = "fault"])
    /\ UNCHANGED <<srv, ideal, lastOp>>

\* Do fails: no response is obtained.
TransportFail(p) ==
    /\ pc[p] = "blocked"
    /\ Return(p, [k |-> "transport", status |-> 0, body |-> NoBody], NoExpect)
    /\ UNCHANGED <<srv, ideal, lastOp, faults>>

\* The caller cancels the context of p's call while its request is in
\* flight. The request was built by http.NewRequest, without the context.
Cancel(p) ==
    /\ pc[p] = "blocked"
    /\ ~ctxDone[p]
    /\ ctxDone' = [ctxDone EXCEPT ![p] = TRUE]
    /\ UNCHANGED <<ctor, config, location, pc, call, wire, sent, done,
                   openBodies, srv, ideal, lastOp, calls, faults>>

\* One goroutine invokes one operation.
Invoke(p) ==
    \/ Open(p)
    \/ GetStates(p)
    \/ \E MAC \in MACs, rd \in Readers : PutState(p, MAC, rd)
    \/ \E MAC \in MACs : GetState(p, MAC)
    \/ \E MAC \in MACs : DeleteState(p, MAC)
    \/ GetPackfiles(p)
    \/ \E MAC \in MACs, rd \in Readers : PutPackfile(p, MAC, rd)
    \/ \E MAC \in MACs : GetPackfile(p, MAC)
    \/ \E MAC \in MACs, offset \in Offsets, length \in Lengths :
         GetPackfileBlob(p, MAC, offset, length)
    \/ \E MAC \in MACs : DeletePackfile(p, MAC)
    \/ GetLocks(p)
    \/ \E lockID \in MACs, rd \in Readers : PutLock(p, lockID, rd)
    \/ \E lockID \in MACs : GetLock(p, lockID)
    \/ \E lockID \in MACs : DeleteLock(p, lockID)

\* One goroutine constructs the Store and calls it, one operation after the
\* other, against a peer that serves, fails or makes up its responses.
Next ==
    \/ \E loc \in Locations : NewStore(loc)
    \/ \E p \in Procs : Invoke(p)
    \/ \E p \in Procs : Serve(p)
    \/ \E p \in Procs : Fault(p)
    \/ \E p \in Procs : TransportFail(p)
    \/ \E p \in Procs : Cancel(p)

Spec == Init /\ [][Next]_vars

\* The locations NewStore takes whose requests reach a peer.
ServedLocations == {l \in Locations : Reaches(Parse(l))}

\* A constructed Store shared by the goroutines, each of which invokes one
\* operation while the others are in theirs.
InitConc ==
    /\ ctor = "ok"
    /\ config \in ServedLocations
    /\ location = Parse(config).url
    /\ pc = [p \in Procs |-> "idle"]
    /\ call = [p \in Procs |-> NoCall]
    /\ ctxDone = [p \in Procs |-> FALSE]
    /\ wire = [p \in Procs |-> NoRequest]
    /\ sent = [p \in Procs |-> 0]
    /\ done = NoneDone
    /\ openBodies = 0
    /\ ideal = InitialStore
    /\ srv = [k \in Keys |-> [has |-> ideal[k].has,
                              data |-> Base64Encode(ideal[k].data)]]
    /\ lastOp = [k \in Keys |-> ""]
    /\ calls = [p \in Procs |-> 1]
    /\ faults = 0

NextConc ==
    \/ \E p \in Procs : Invoke(p)
    \/ \E p \in Procs : Serve(p)
    \/ \E p \in Procs : TransportFail(p)
    \/ \E p \in Procs : Cancel(p)

ConcSpec == InitConc /\ [][NextConc]_vars

\* ------------------------------------------------------------ the claims

Returned == done.p # ""

ByteOps == Gets \cup {"Open", "GetPackfileBlob"}

\* The base64 text of the payload an operation reads from its envelope.
PayloadText(op, b) ==
    IF op = "Open" THEN b.configuration
    ELSE IF op \in ByteOps THEN b.data
    ELSE <<>>

EnvelopeDecodes(op, b) == b.k = "json" /\ Base64Decode(PayloadText(op, b)).ok

\* The payload of envelope b for the call c: the configuration, the MACs,
\* the data; for a Put, which has none, the count of the bytes sent.
EnvelopePayload(c, b) ==
    CASE c.op \in {"GetStates", "GetPackfiles"} -> MacsVal(b.macs)
      [] c.op = "GetLocks" -> MacsVal(b.locks)
      [] c.op \in Puts -> IntVal(Len(c.data))
      [] c.op \in Deletes -> NilVal
      [] OTHER -> BytesVal(Base64Decode(PayloadText(c.op, b)).bytes)

CarriesNoPayload(v) == v = NilVal \/ v = IntVal(0) \/ v = MacsVal({})

\* C1: every operation that obtained a response classifies it the same way,
\* whatever the status: a body that does not decode as the operation's
\* envelope is the decode error; else a non-empty error field is an error
\* with exactly that message and no payload; else the envelope's payload is
\* returned.
ClassifiedUniformly ==
    (Returned /\ done.reply.k = "http") =>
        IF ~EnvelopeDecodes(done.call.op, done.reply.body)
        THEN done.err = DecodeError /\ CarriesNoPayload(done.val)
        ELSE IF done.reply.body.err # ""
        THEN /\ done.err.k = "remote"
             /\ done.err.msg = done.reply.body.err
             /\ CarriesNoPayload(done.val)
        ELSE /\ done.err = NoError
             /\ done.val = EnvelopePayload(done.call, done.reply.body)

\* A lock list returned from a valid envelope under status 500.
ClassifiedUniformlyWitness ==
    /\ Returned
    /\ done.call.op = "GetLocks"
    /\ done.reply.status = 500
    /\ done.err = NoError
    /\ done.val = MacsVal({"m1"})

\* The response Do gave the invocation is a failure: none was obtained, its
\* body does not decode, or the peer reports an error.
FailedReply ==
    \/ done.reply.k = "transport"
    \/ /\ done.reply.k = "http"
       /\ \/ ~EnvelopeDecodes(done.call.op, done.reply.body)
          \/ done.reply.body.err # ""

\* C2: an invocation calls Do at most once, and exactly once when its
\* request could be built (the Put's reader did not fail); it returns after
\* a failure with that failure as its error, holding no further request, and
\* never with success.
OneRequestNoDefault ==
    /\ \A p \in Procs :
         /\ sent[p] <= 1
         /\ pc[p] = "blocked" => sent[p] = 1
    /\ Returned =>
         /\ done.sent = (IF done.err = ReadError THEN 0 ELSE 1)
         /\ pc[done.p] = "idle" /\ wire[done.p] = NoRequest /\ sent[done.p] = 0
         /\ FailedReply => done.err # NoError
         /\ done.reply.k = "transport" => done.err = TransportError

\* A list of states failed with the transport's error after its one request.
OneRequestNoDefaultWitness ==
    /\ Returned
    /\ done.call.op = "GetStates"
    /\ done.sent = 1
    /\ done.reply.k = "transport"
    /\ done.err = TransportError
    /\ done.val = NilVal

\* C3: a call whose context is cancelled while its request is in flight is
\* aborted: when it returns, it returns the cancellation error.
CancelledCallReturnsCancellation ==
    [][\A p \in Procs :
         (pc[p] = "blocked" /\ ctxDone[p] /\ pc'[p] = "idle")
             => done'.err.k = "canceled"]_vars

\* C4: NewStore returns an adapter exactly when the location parses and its
\* scheme is http or https.
NewStoreRequiresHTTP ==
    ctor # "none" =>
        (ctor = "ok" <=> (Parse(config).ok
                          /\ Parse(config).url.Scheme \in {"http", "https"}))

\* The wire protocol's table: method, path elements below the endpoint's
\* path, and request fields of each operation.
WireTable(op) ==
    CASE op = "Open" -> [method |-> "GET", sub |-> <<>>, fields |-> {}]
      [] op = "GetStates" -> [method |-> "GET", sub |-> <<"states">>, fields |-> {}]
      [] op = "PutState" ->
            [method |-> "PUT", sub |-> <<"state">>, fields |-> {"mac", "data"}]
      [] op = "GetState" ->
            [method |-> "GET", sub |-> <<"state">>, fields |-> {"mac"}]
      [] op = "DeleteState" ->
            [method |-> "DELETE", sub |-> <<"state">>, fields |-> {"mac"}]
      [] op = "GetPackfiles" ->
            [method |-> "GET", sub |-> <<"packfiles">>, fields |-> {}]
      [] op = "PutPackfile" ->
            [method |-> "PUT", sub |-> <<"packfile">>, fields |-> {"mac", "data"}]
      [] op = "GetPackfile" ->
            [method |-> "GET", sub |-> <<"packfile">>, fields |-> {"mac"}]
      [] op = "DeletePackfile" ->
            [method |-> "DELETE", sub |-> <<"packfile">>, fields |-> {"mac"}]
      [] op = "GetPackfileBlob" ->
            [method |-> "GET", sub |-> <<"packfile", "blob">>,
             fields |-> {"mac", "offset", "length"}]
      [] op = "GetLocks" -> [method |-> "GET", sub |-> <<"locks">>, fields |-> {}]
      [] op = "PutLock" ->
            [method |-> "PUT", sub |-> <<"lock">>, fields |-> {"mac", "data"}]
      [] op = "GetLock" -> [method |-> "GET", sub |-> <<"lock">>, fields |-> {"mac"}]
      [] OTHER -> [method |-> "DELETE", sub |-> <<"lock">>, fields |-> {"mac"}]

\* The elements of a rooted path with "." and ".." resolved.
Resolved(path) == CleanStack(Segments(path), <<>>, TRUE)

\* The request w is the table's for the call c on the endpoint loc, with c's
\* arguments.
MatchesTable(c, w, u, t, loc) ==
    /\ w.method = t.method
    /\ u.Scheme = loc.Scheme
    /\ u.Host = loc.Host
    /\ Rooted(u.Path)
    /\ Segments(u.Path) = Resolved(loc.Path) \o t.sub
    /\ w.body.fields = t.fields
    /\ w.body.mac = c.mac
    /\ Base64Decode(w.body.data) = [ok |-> TRUE, bytes |-> c.data]
    /\ w.body.offset = c.offset
    /\ w.body.length = c.length

\* C5: the request an operation of the table hands to the transport has the
\* table's method, the endpoint's scheme and host, the endpoint's path with
\* the table's subpath below it, and exactly the table's fields with the
\* caller's MAC, data, offset and length.
RequestsFollowWireTable ==
    \A p \in Procs :
        (pc[p] = "blocked" /\ call[p].op # "Open" /\ Deliverable(wire[p])) =>
            MatchesTable(call[p], wire[p], Parse(wire[p].url).url,
                         WireTable(call[p].op), location)

\* A range read under an endpoint path that holds "..".
RequestsFollowWireTableWitness ==
    \E p \in Procs :
        /\ pc[p] = "blocked"
        /\ call[p].op = "GetPackfileBlob"
        /\ call[p].offset = 1
        /\ wire[p].body.offset = 1
        /\ wire[p].body.length = 2
        /\ wire[p].url = <<"http", Colon, Slash, Slash, "h", Slash, "b", Slash,
                           "packfile", Slash, "blob">>

ExampleLocation == <<"https", Colon, Slash, Slash, "store.example.com", Slash, "repo">>

\* "eyJ2IjoxfQ==" in sextets.
ExampleConfiguration == <<30, 50, 9, 54, 8, 35, 40, 49, 31, 16, Pad, Pad>>

\* Open on the example's endpoint returns the configuration bytes of an
\* envelope with an empty error field.
OpenReturnsConfiguration ==
    (/\ Returned
     /\ config = ExampleLocation
     /\ done.call.op = "Open"
     /\ done.reply.k = "http"
     /\ EnvelopeDecodes("Open", done.reply.body)
     /\ done.reply.body.err = "") =>
        /\ done.err = NoError
        /\ done.val = BytesVal(Base64Decode(done.reply.body.configuration).bytes)
        /\ done.reply.body.configuration = ExampleConfiguration
               => done.val = BytesVal(ConfigBytes)

\* C6 as stated: Open's request goes to https://store.example.com/repo/,
\* the trailing separator kept.
OpenTargetsRepoSlash ==
    /\ \A p \in Procs :
         (pc[p] = "blocked" /\ call[p].op = "Open" /\ config = ExampleLocation) =>
             /\ wire[p].method = "GET"
             /\ wire[p].url = ExampleLocation \o <<Slash>>
    /\ OpenReturnsConfiguration

\* C6 as amended: Open's request goes to https://store.example.com/repo,
\* path.Join having cleaned the trailing separator away, and Open returns
\* the configuration bytes of an envelope with an empty error field.
OpenTargetsRepo ==
    /\ \A p \in Procs :
         (pc[p] = "blocked" /\ call[p].op = "Open" /\ config = ExampleLocation) =>
             /\ wire[p].method = "GET"
             /\ wire[p].url = ExampleLocation
    /\ OpenReturnsConfiguration

\* Open on the example's endpoint returned {"v":1} from "eyJ2IjoxfQ==".
OpenTargetsRepoWitness ==
    /\ Returned
    /\ config = ExampleLocation
    /\ done.call.op = "Open"
    /\ done.reply.body.configuration = ExampleConfiguration
    /\ done.val = BytesVal(ConfigBytes)

\* C7: against a peer that stores what it is sent, a Put returns the count
\* of its bytes, a Get returns exactly the bytes of the last Put of its class
\* and MAC (those the peer held at first, if none), and a list returns the
\* MACs of its class: nothing done to another class shows.
RoundTrip ==
    (Returned /\ done.expect.k = "served") =>
        /\ done.call.op \in Puts =>
             done.err = NoError /\ done.val = IntVal(Len(done.call.data))
        /\ (done.call.op \in Gets /\ done.expect.ok) =>
             done.err = NoError /\ done.val = done.expect.val
        /\ done.call.op \in Lists =>
             done.err = NoError /\ done.val = done.expect.val

\* A lock read back after it was put.
RoundTripWitness ==
    /\ Returned
    /\ done.call.op = "GetLock"
    /\ done.expect.k = "served"
    /\ done.expect.after = "put"
    /\ done.val = BytesVal(<<77, 97, 110, 5>>)

\* C8: against a peer that stores objects per class and MAC, a Delete of an
\* object succeeds, and from then until the next Put of its class and MAC a
\* Get of it fails with the peer's not-found error and a list omits it.
DeleteVisibility ==
    (Returned /\ done.expect.k = "served") =>
        /\ (done.call.op \in Deletes /\ done.expect.ok) => done.err = NoError
        /\ (done.call.op \in Gets /\ done.expect.after = "delete") =>
             /\ done.err.k = "remote"
             /\ done.err.msg = NotFound
             /\ done.val = NilVal
        /\ done.call.op \in Lists =>
             /\ done.err = NoError
             /\ done.val.s \cap done.expect.gone = {}

\* A packfile not found after it was deleted.
DeleteVisibilityWitness ==
    /\ Returned
    /\ done.call.op = "GetPackfile"
    /\ done.expect.k = "served"
    /\ done.expect.after = "delete"
    /\ done.err.msg = NotFound

\* The request w is built from the location NewStore parsed and the call c
\* alone.
OwnRequest(c, w, u, loc) ==
    /\ u.Scheme = loc.Scheme
    /\ u.Host = loc.Host
    /\ Segments(u.Path) = Resolved(loc.Path) \o WireTable(c.op).sub
    /\ w.body.mac = c.mac
    /\ Base64Decode(w.body.data).bytes = c.data

\* C9: with goroutines in their operations at the same time, the Store's
\* location stays what NewStore parsed, each request in flight is built from
\* it and its own call's MAC and data, and a Put that was served returns the
\* count of its own bytes.
ConcurrentCallsIsolated ==
    /\ location = Parse(config).url
    /\ \A p \in Procs :
         pc[p] = "blocked" =>
             OwnRequest(call[p], wire[p], Parse(wire[p].url).url, Parse(config).url)
    /\ (Returned /\ done.call.op \in Puts /\ done.expect.k = "served") =>
         done.err = NoError /\ done.val = IntVal(Len(done.call.data))

\* A Put returned its count while a Put of another MAC was in flight.
ConcurrentCallsIsolatedWitness ==
    /\ Returned
    /\ done.call.op \in Puts
    /\ done.val = IntVal(4)
    /\ \E q \in Procs :
         /\ q # done.p
         /\ pc[q] = "blocked"
         /\ call[q].op \in Puts
         /\ call[q].mac # done.call.mac
         /\ call[q].data = <<255, 1>>

\* C10: no response body is left open by an operation that has returned.
ResponseBodiesClosed == openBodies = 0

=============================================================================
